---- MODULE Spec2Model ----
(***************************************************************************)
(* Model of src/probabilities/calculate.rs: the parallel enumeration of    *)
(* the game tree (solve_probabilities, seed_stack, start_worker and the    *)
(* two recursive enumerators).  The board (crate::board) and the           *)
(* accumulators (crate::probabilities::accumulators) are collaborators of  *)
(* this file; they are modelled by a small racing game and by maps from    *)
(* outcome to count.                                                       *)
(***************************************************************************)
EXTENDS Integers, Sequences, FiniteSets, TLC

\* ------------------------------------------------------------------ bounds
MaxDepth == 2        \* largest depth handed to solve_probabilities
MaxWorkers == 2      \* largest num_workers handed to solve_probabilities
Finish == 2          \* tile at which the race of the modelled board ends
MaxDice == 2         \* most dice a modelled board has
MaxFaces == 3        \* most faces a die of a modelled board has

\* depth, transition_depth and num_unrolled are u8
U8 == 256

\* ------------------------------------------------------------- the board
\* An outcome signature is the leading racer (two racers).
Orders == 1..2
Tiles == 1..Finish

Board ==
    { b \in [order : Orders, steps : 0..Finish, unrolled : 0..MaxDice,
             dice : 1..MaxDice, faces : 1..MaxFaces] : b.unrolled <= b.dice }

\* The two racers are interchangeable: a call starts with racer 1 leading.
InitialBoards == { b \in Board : b.order = 1 }

\* The legal rolls, in the order the board lists them: every unrolled die
\* with every face.
potential_moves(board) ==
    [i \in 1..(board.unrolled * board.faces) |->
        <<((i - 1) \div board.faces) + 1, ((i - 1) % board.faces) + 1>>]

\* A roll moves the pack forward by its face, swaps the leader on an odd
\* face and uses up one die; when the last die is used the round ends and
\* all dice are unrolled again.
update(board, roll) ==
    LET face == roll[2]
        left == board.unrolled - 1
    IN  [board EXCEPT
            !.steps = IF @ + face >= Finish THEN Finish ELSE @ + face,
            !.order = IF face % 2 = 1 THEN 3 - @ ELSE @,
            !.unrolled = IF left <= 0 THEN board.dice ELSE left]

is_terminal(board) == board.steps >= Finish

camel_order(board) == board.order

num_unrolled(board) == board.unrolled

\* ------------------------------------------------------- the accumulators
\* PositionAccumulator::new(), From<CamelOrder>, += and the atomic add.
NewPositionAccumulator == [o \in Orders |-> 0]

NewTileAccumulator == [t \in Tiles |-> 0]

IntoAccumulator(order) == [o \in Orders |-> IF o = order THEN 1 ELSE 0]

AddAssign(acc, other) == [k \in DOMAIN acc |-> acc[k] + other[k]]

AtomicAdd(shared, private) == [k \in DOMAIN shared |-> shared[k] + private[k]]

RECURSIVE SumOver(_, _)
SumOver(acc, keys) ==
    IF keys = {} THEN 0
    ELSE LET k == CHOOSE x \in keys : TRUE
         IN  acc[k] + SumOver(acc, keys \ {k})

\* count_terminal(): the number of leaves an accumulator holds.
Total(acc) == SumOver(acc, DOMAIN acc)

\* ---------------------------------------------------------- enumerators
terminal_node_heuristic(board) == camel_order(board)

RECURSIVE calculate_game_terminal_states(_, _)
RECURSIVE GameLoop(_, _, _, _)

\* The for loop of calculate_game_terminal_states from roll number i on.
GameLoop(board, depth, i, acc) ==
    LET moves == potential_moves(board)
    IN  IF i > Len(moves) THEN acc
        ELSE GameLoop(board, depth, i + 1,
                AddAssign(acc,
                    calculate_game_terminal_states(update(board, moves[i]), depth - 1)))

calculate_game_terminal_states(board, depth) ==
    IF depth = 0 THEN IntoAccumulator(terminal_node_heuristic(board))
    ELSE IF is_terminal(board) THEN IntoAccumulator(camel_order(board))
    ELSE GameLoop(board, depth, 1, NewPositionAccumulator)

RECURSIVE calculate_round_and_game_terminal_states(_, _, _)
RECURSIVE JointLoop(_, _, _, _, _)

\* The for loop of calculate_round_and_game_terminal_states from roll i on.
JointLoop(board, depth, transition, i, acc) ==
    LET moves == potential_moves(board)
    IN  IF i > Len(moves) THEN acc
        ELSE LET r == calculate_round_and_game_terminal_states(
                          update(board, moves[i]), depth - 1, transition)
             IN  JointLoop(board, depth, transition, i + 1,
                    [game  |-> AddAssign(acc.game, r.game),
                     round |-> AddAssign(acc.round, r.round),
                     tile  |-> AddAssign(acc.tile, r.tile)])

\* A joint enumerator whose switch to game-only mode records the current
\* state for the game too instead of walking the remaining depth.
JointRecordsLeafAtSwitch(board, depth, transition) ==
    IF depth = 0
    THEN LET accum == IntoAccumulator(terminal_node_heuristic(board))
         IN  [game |-> accum, round |-> accum, tile |-> NewTileAccumulator]
    ELSE IF is_terminal(board)
    THEN LET accum == IntoAccumulator(camel_order(board))
         IN  [game |-> accum, round |-> accum, tile |-> NewTileAccumulator]
    ELSE IF depth <= transition
    THEN [game  |-> IntoAccumulator(camel_order(board)),
          round |-> IntoAccumulator(camel_order(board)),
          tile  |-> NewTileAccumulator]
    ELSE JointLoop(board, depth, transition, 1,
            [game  |-> NewPositionAccumulator,
             round |-> NewPositionAccumulator,
             tile  |-> NewTileAccumulator])

calculate_round_and_game_terminal_states(board, depth, transition) ==
    IF depth = 0
    THEN LET accum == IntoAccumulator(terminal_node_heuristic(board))
         IN  [game |-> accum, round |-> accum, tile |-> NewTileAccumulator]
    ELSE IF is_terminal(board)
    THEN LET accum == IntoAccumulator(camel_order(board))
         IN  [game |-> accum, round |-> accum, tile |-> NewTileAccumulator]
    ELSE IF depth <= transition
    THEN [game  |-> AddAssign(NewPositionAccumulator,
                              calculate_game_terminal_states(board, depth)),
          round |-> AddAssign(NewPositionAccumulator,
                              IntoAccumulator(camel_order(board))),
          tile  |-> NewTileAccumulator]
    ELSE JointLoop(board, depth, transition, 1,
            [game  |-> NewPositionAccumulator,
             round |-> NewPositionAccumulator,
             tile  |-> NewTileAccumulator])

\* The body of start_worker's loop for one popped item: what it adds to the
\* private game, round and tile accumulators.
UseJoint(depth, transition) == depth > transition

\* A loop body that also counts the item's leaves into the tile accumulator.
WorkerItemFillsTile(item, transition) ==
    LET game == calculate_game_terminal_states(item[1], item[2])
    IN  [game  |-> game,
         round |-> IF UseJoint(item[2], transition)
                   THEN calculate_round_and_game_terminal_states(
                            item[1], item[2], transition).round
                   ELSE NewPositionAccumulator,
         tile  |-> [k \in Tiles |-> Total(game)]]

WorkerItem(item, transition) ==
    IF UseJoint(item[2], transition)
    THEN calculate_round_and_game_terminal_states(item[1], item[2], transition)
    ELSE [game  |-> calculate_game_terminal_states(item[1], item[2]),
          round |-> NewPositionAccumulator,
          tile  |-> NewTileAccumulator]

\* ------------------------------------------------------------------ state
VARIABLES
    board,              \* argument of solve_probabilities
    depth,              \* argument of solve_probabilities
    num_workers,        \* argument of solve_probabilities
    overflow_checks,    \* the build checks integer overflow (debug) or wraps
    stack,              \* the ArrayQueue of (board, depth), oldest first
    num_seeded,         \* seed_stack's running count
    transition_depth,   \* computed after seeding
    pc,                 \* where solve_probabilities is
    failure,            \* which panic ended the call, "" when none
    seeded,             \* the queue as seed_stack left it
    wpc,                \* where each worker is
    private_game_positions,
    private_round_positions,
    private_tile_positions,
    game_positions_accumulator,
    round_positions_accumulator,
    tile_accumulator,
    adds                \* how often each worker has called add on each
                        \* shared accumulator

vars == <<board, depth, num_workers, overflow_checks, stack, num_seeded,
          transition_depth, pc, failure, seeded, wpc,
          private_game_positions, private_round_positions,
          private_tile_positions, game_positions_accumulator,
          round_positions_accumulator, tile_accumulator, adds>>

inputs == <<board, depth, num_workers, overflow_checks>>
privates == <<private_game_positions, private_round_positions,
              private_tile_positions>>
shared == <<game_positions_accumulator, round_positions_accumulator,
            tile_accumulator>>

Workers == 1..num_workers

Capacity == num_workers * 2

\* solve_probabilities up to the call of seed_stack: the shared accumulators
\* are new, the queue holds the initial item, seed_stack has read its length.
Init ==
    /\ board \in InitialBoards
    /\ depth \in 0..MaxDepth
    /\ num_workers \in 1..MaxWorkers
    /\ overflow_checks \in BOOLEAN
    /\ stack = <<<<board, depth>>>>
    /\ num_seeded = 1
    /\ transition_depth = 0
    /\ pc = "seed"
    /\ failure = ""
    /\ seeded = <<>>
    /\ wpc = [w \in Workers |-> "idle"]
    /\ private_game_positions = [w \in Workers |-> NewPositionAccumulator]
    /\ private_round_positions = [w \in Workers |-> NewPositionAccumulator]
    /\ private_tile_positions = [w \in Workers |-> NewTileAccumulator]
    /\ game_positions_accumulator = NewPositionAccumulator
    /\ round_positions_accumulator = NewPositionAccumulator
    /\ tile_accumulator = NewTileAccumulator
    /\ adds = [w \in Workers |-> [game |-> 0, round |-> 0, tile |-> 0]]

\* ---------------------------------------------------------------- seeding
SeedTarget == num_workers

\* A loop that stops one item short of the target.
SeedStopsShort == num_seeded + 1 < SeedTarget

SeedContinues == num_seeded < SeedTarget

\* A failure that is recorded but does not end the call.
PanicSwallowed(why) ==
    /\ pc' = pc
    /\ failure' = why

Panic(why) ==
    /\ pc' = "panicked"
    /\ failure' = why

\* The items one iteration of seed_stack's loop pushes for the popped item.
Successors(item) ==
    LET moves == potential_moves(item[1])
    IN  [i \in 1..Len(moves) |->
            <<update(item[1], moves[i]), (item[2] - 1) % U8>>]

\* pop() returned None.
SeedUnderflow ==
    /\ pc = "seed"
    /\ SeedContinues
    /\ stack = <<>>
    /\ Panic("seed underflow")
    /\ UNCHANGED <<inputs, adds, stack, num_seeded, transition_depth, seeded, wpc,
                   privates, shared>>

\* depth - 1 on a popped item of depth 0, in a build that checks overflow.
SeedDepthOverflow ==
    /\ pc = "seed"
    /\ SeedContinues
    /\ stack # <<>>
    /\ overflow_checks
    /\ Head(stack)[2] = 0
    /\ Len(potential_moves(Head(stack)[1])) > 0
    /\ stack' = Tail(stack)
    /\ num_seeded' = num_seeded - 1
    /\ Panic("subtract with overflow")
    /\ UNCHANGED <<inputs, adds, transition_depth, seeded, wpc, privates, shared>>

SeedWraps == ~overflow_checks \/ Head(stack)[2] # 0
                \/ Len(potential_moves(Head(stack)[1])) = 0

\* a push found the queue full: the pushes before it were made.
SeedOverflow ==
    /\ pc = "seed"
    /\ SeedContinues
    /\ stack # <<>>
    /\ SeedWraps
    /\ LET succ == Successors(Head(stack))
           room == Capacity - Len(Tail(stack))
       IN  /\ Len(succ) > room
           /\ stack' = Tail(stack) \o SubSeq(succ, 1, room)
           /\ num_seeded' = num_seeded - 1 + room
    /\ Panic("queue overflow")
    /\ UNCHANGED <<inputs, adds, transition_depth, seeded, wpc, privates, shared>>

\* An iteration that counts the pushes and forgets the pop.
SeedExpandMiscounts ==
    /\ pc = "seed"
    /\ SeedContinues
    /\ stack # <<>>
    /\ SeedWraps
    /\ LET succ == Successors(Head(stack))
           room == Capacity - Len(Tail(stack))
       IN  /\ Len(succ) <= room
           /\ stack' = Tail(stack) \o succ
           /\ num_seeded' = num_seeded + Len(succ)
    /\ UNCHANGED <<inputs, adds, transition_depth, pc, failure, seeded, wpc,
                   privates, shared>>

\* one full iteration of the loop: pop the oldest item, push its successors.
SeedExpand ==
    /\ pc = "seed"
    /\ SeedContinues
    /\ stack # <<>>
    /\ SeedWraps
    /\ LET succ == Successors(Head(stack))
           room == Capacity - Len(Tail(stack))
       IN  /\ Len(succ) <= room
           /\ stack' = Tail(stack) \o succ
           /\ num_seeded' = num_seeded - 1 + Len(succ)
    /\ UNCHANGED <<inputs, adds, transition_depth, pc, failure, seeded, wpc,
                   privates, shared>>

\* seed_stack returns; depth - board.num_unrolled() is computed and the
\* workers are dispatched.
TransitionDepth == (depth - num_unrolled(board)) % U8

Dispatch ==
    /\ pc = "seed"
    /\ ~SeedContinues
    /\ ~(overflow_checks /\ depth < num_unrolled(board))
    /\ transition_depth' = TransitionDepth
    /\ seeded' = stack
    /\ pc' = "workers"
    /\ UNCHANGED <<inputs, adds, stack, num_seeded, failure, wpc, privates, shared>>

\* depth - board.num_unrolled() in a build that checks overflow.
TransitionOverflow ==
    /\ pc = "seed"
    /\ ~SeedContinues
    /\ overflow_checks
    /\ depth < num_unrolled(board)
    /\ Panic("subtract with overflow")
    /\ UNCHANGED <<inputs, adds, stack, num_seeded, transition_depth, seeded, wpc,
                   privates, shared>>

\* ---------------------------------------------------------------- workers
\* start_worker is entered: the private accumulators are created.
WorkerStart(w) ==
    /\ pc = "workers"
    /\ wpc[w] = "idle"
    /\ wpc' = [wpc EXCEPT ![w] = "loop"]
    /\ UNCHANGED <<inputs, adds, stack, num_seeded, transition_depth, pc, failure,
                   seeded, privates, shared>>

\* An iteration that assigns the item's leaves instead of adding them.
WorkerPopAssigns(w) ==
    /\ pc = "workers"
    /\ wpc[w] = "loop"
    /\ stack # <<>>
    /\ LET r == WorkerItem(Head(stack), transition_depth)
       IN  /\ private_game_positions' =
                [private_game_positions EXCEPT ![w] = r.game]
           /\ private_round_positions' =
                [private_round_positions EXCEPT ![w] = r.round]
           /\ private_tile_positions' =
                [private_tile_positions EXCEPT ![w] = r.tile]
    /\ stack' = Tail(stack)
    /\ UNCHANGED <<inputs, adds, num_seeded, transition_depth, pc, failure, seeded,
                   wpc, shared>>

\* An iteration that hands the successors of an unfinished item back to the
\* queue instead of enumerating the item.
WorkerPopRequeues(w) ==
    /\ pc = "workers"
    /\ wpc[w] = "loop"
    /\ stack # <<>>
    /\ LET item == Head(stack)
           split == item[2] > 0 /\ ~is_terminal(item[1])
           r == IF split
                THEN [game  |-> NewPositionAccumulator,
                      round |-> NewPositionAccumulator,
                      tile  |-> NewTileAccumulator]
                ELSE WorkerItem(item, transition_depth)
       IN  /\ private_game_positions' =
                [private_game_positions EXCEPT ![w] = AddAssign(@, r.game)]
           /\ private_round_positions' =
                [private_round_positions EXCEPT ![w] = AddAssign(@, r.round)]
           /\ private_tile_positions' =
                [private_tile_positions EXCEPT ![w] = AddAssign(@, r.tile)]
           /\ stack' = IF split THEN Tail(stack) \o Successors(item)
                                ELSE Tail(stack)
    /\ UNCHANGED <<inputs, adds, num_seeded, transition_depth, pc, failure,
                   seeded, wpc, shared>>

\* A loop iteration that enumerates the oldest item and leaves it queued.
WorkerPopPeeks(w) ==
    /\ pc = "workers"
    /\ wpc[w] = "loop"
    /\ stack # <<>>
    /\ LET r == WorkerItem(Head(stack), transition_depth)
       IN  /\ private_game_positions' =
                [private_game_positions EXCEPT ![w] = AddAssign(@, r.game)]
           /\ private_round_positions' =
                [private_round_positions EXCEPT ![w] = AddAssign(@, r.round)]
           /\ private_tile_positions' =
                [private_tile_positions EXCEPT ![w] = AddAssign(@, r.tile)]
    /\ stack' = stack
    /\ UNCHANGED <<inputs, adds, num_seeded, transition_depth, pc, failure, seeded,
                   wpc, shared>>

\* one iteration of the loop: pop an item and enumerate it.
WorkerPop(w) ==
    /\ pc = "workers"
    /\ wpc[w] = "loop"
    /\ stack # <<>>
    /\ LET r == WorkerItem(Head(stack), transition_depth)
       IN  /\ private_game_positions' =
                [private_game_positions EXCEPT ![w] = AddAssign(@, r.game)]
           /\ private_round_positions' =
                [private_round_positions EXCEPT ![w] = AddAssign(@, r.round)]
           /\ private_tile_positions' =
                [private_tile_positions EXCEPT ![w] = AddAssign(@, r.tile)]
    /\ stack' = Tail(stack)
    /\ UNCHANGED <<inputs, adds, num_seeded, transition_depth, pc, failure, seeded,
                   wpc, shared>>

\* An empty pop that is tried again instead of ending the loop.
WorkerEmptyRetries(w) ==
    /\ pc = "workers"
    /\ wpc[w] = "loop"
    /\ stack = <<>>
    /\ UNCHANGED vars

\* pop() returned None: break.
WorkerEmpty(w) ==
    /\ pc = "workers"
    /\ wpc[w] = "loop"
    /\ stack = <<>>
    /\ wpc' = [wpc EXCEPT ![w] = "merge_game"]
    /\ UNCHANGED <<inputs, adds, stack, num_seeded, transition_depth, pc, failure,
                   seeded, privates, shared>>

\* A merge of the game accumulator that also runs inside the loop, after
\* every item.
MergeGameInLoop(w) ==
    /\ pc = "workers"
    /\ wpc[w] \in {"loop", "merge_game"}
    /\ game_positions_accumulator' =
            AtomicAdd(game_positions_accumulator, private_game_positions[w])
    /\ wpc' = [wpc EXCEPT ![w] = IF @ = "loop" THEN "loop" ELSE "merge_round"]
    /\ adds' = [adds EXCEPT ![w].game = @ + 1]
    /\ UNCHANGED <<inputs, stack, num_seeded, transition_depth, pc, failure,
                   seeded, privates, round_positions_accumulator,
                   tile_accumulator>>

MergeGame(w) ==
    /\ pc = "workers"
    /\ wpc[w] = "merge_game"
    /\ game_positions_accumulator' =
            AtomicAdd(game_positions_accumulator, private_game_positions[w])
    /\ wpc' = [wpc EXCEPT ![w] = "merge_round"]
    /\ adds' = [adds EXCEPT ![w].game = @ + 1]
    /\ UNCHANGED <<inputs, stack, num_seeded, transition_depth, pc, failure,
                   seeded, privates, round_positions_accumulator,
                   tile_accumulator>>

MergeRound(w) ==
    /\ pc = "workers"
    /\ wpc[w] = "merge_round"
    /\ round_positions_accumulator' =
            AtomicAdd(round_positions_accumulator, private_round_positions[w])
    /\ wpc' = [wpc EXCEPT ![w] = "merge_tile"]
    /\ adds' = [adds EXCEPT ![w].round = @ + 1]
    /\ UNCHANGED <<inputs, stack, num_seeded, transition_depth, pc, failure,
                   seeded, privates, game_positions_accumulator,
                   tile_accumulator>>

MergeTile(w) ==
    /\ pc = "workers"
    /\ wpc[w] = "merge_tile"
    /\ tile_accumulator' =
            AtomicAdd(tile_accumulator, private_tile_positions[w])
    /\ wpc' = [wpc EXCEPT ![w] = "finished"]
    /\ adds' = [adds EXCEPT ![w].tile = @ + 1]
    /\ UNCHANGED <<inputs, stack, num_seeded, transition_depth, pc, failure,
                   seeded, privates, game_positions_accumulator,
                   round_positions_accumulator>>

\* for_each has joined every worker: the shared accumulators are finalized
\* and the odds are returned.
Finalize ==
    /\ pc = "workers"
    /\ \A w \in Workers : wpc[w] = "finished"
    /\ pc' = "done"
    /\ UNCHANGED <<inputs, adds, stack, num_seeded, transition_depth, failure,
                   seeded, wpc, privates, shared>>

Next ==
    \/ SeedUnderflow
    \/ SeedDepthOverflow
    \/ SeedOverflow
    \/ SeedExpand
    \/ Dispatch
    \/ TransitionOverflow
    \/ \E w \in Workers : WorkerStart(w)
    \/ \E w \in Workers : WorkerPop(w)
    \/ \E w \in Workers : WorkerEmpty(w)
    \/ \E w \in Workers : MergeGame(w)
    \/ \E w \in Workers : MergeRound(w)
    \/ \E w \in Workers : MergeTile(w)
    \/ Finalize

Spec == Init /\ [][Next]_vars

\* The calling thread runs seed_stack and the dispatch without waiting for
\* anything, and the pool runs every worker task it was given: each of them
\* takes its next step when it has one.
MainStep ==
    \/ SeedUnderflow
    \/ SeedDepthOverflow
    \/ SeedOverflow
    \/ SeedExpand
    \/ Dispatch
    \/ TransitionOverflow
    \/ Finalize

WorkerStep(w) ==
    /\ w \in Workers
    /\ \/ WorkerStart(w)
       \/ WorkerPop(w)
       \/ WorkerEmpty(w)
       \/ MergeGame(w)
       \/ MergeRound(w)
       \/ MergeTile(w)

FairSpec ==
    /\ Spec
    /\ WF_vars(MainStep)
    /\ \A w \in 1..MaxWorkers : WF_vars(WorkerStep(w))

\* ---------------------------------------------------------------------
\* The two enumerators called directly, on any board, depth and transition
\* depth: one caller holding one set of accumulators, no queue.
\* ---------------------------------------------------------------------

\* Transition depths below, at and above every depth that is tried, and the
\* largest u8, which is what a wrapped subtraction leaves.
Transitions == (0..(MaxDepth + 1)) \cup {U8 - 1}

EnumInit ==
    /\ board \in Board
    /\ depth \in 0..MaxDepth
    /\ transition_depth \in Transitions
    /\ num_workers = 1
    /\ overflow_checks = FALSE
    /\ stack = <<>>
    /\ num_seeded = 0
    /\ pc = "enum"
    /\ failure = ""
    /\ seeded = <<>>
    /\ wpc = [w \in Workers |-> "idle"]
    /\ adds = [w \in Workers |-> [game |-> 0, round |-> 0, tile |-> 0]]
    /\ private_game_positions = [w \in Workers |-> NewPositionAccumulator]
    /\ private_round_positions = [w \in Workers |-> NewPositionAccumulator]
    /\ private_tile_positions = [w \in Workers |-> NewTileAccumulator]
    /\ game_positions_accumulator = NewPositionAccumulator
    /\ round_positions_accumulator = NewPositionAccumulator
    /\ tile_accumulator = NewTileAccumulator

\* calculate_round_and_game_terminal_states(board, depth, transition_depth),
\* its three results kept as the caller's private accumulators.
EnumJoint ==
    /\ pc = "enum"
    /\ LET r == calculate_round_and_game_terminal_states(
                    board, depth, transition_depth)
       IN  /\ private_game_positions' =
                [private_game_positions EXCEPT ![1] = r.game]
           /\ private_round_positions' =
                [private_round_positions EXCEPT ![1] = r.round]
           /\ private_tile_positions' =
                [private_tile_positions EXCEPT ![1] = r.tile]
    /\ pc' = "joint_done"
    /\ UNCHANGED <<inputs, adds, stack, num_seeded, transition_depth, failure,
                   seeded, wpc, shared>>

\* calculate_game_terminal_states(board, depth), its result kept apart from
\* the joint one.
EnumGameOnly ==
    /\ pc = "joint_done"
    /\ game_positions_accumulator' = calculate_game_terminal_states(board, depth)
    /\ pc' = "enum_done"
    /\ UNCHANGED <<inputs, adds, stack, num_seeded, transition_depth, failure,
                   seeded, wpc, privates, round_positions_accumulator,
                   tile_accumulator>>

EnumNext == EnumJoint \/ EnumGameOnly

EnumSpec == EnumInit /\ [][EnumNext]_vars

\* ------------------------------------------------------------- references
Completed == pc = "done"

FirstWorkerStarts == pc = "workers" /\ \A w \in Workers : wpc[w] = "idle"

NoWorkerRan == \A w \in Workers : wpc[w] = "idle"

SharedUntouched ==
    /\ game_positions_accumulator = NewPositionAccumulator
    /\ round_positions_accumulator = NewPositionAccumulator
    /\ tile_accumulator = NewTileAccumulator

\* One worker draining a queue alone, oldest item first.
RECURSIVE DrainInOrder(_, _, _, _)
DrainInOrder(items, i, transition, acc) ==
    IF i > Len(items) THEN acc
    ELSE LET r == WorkerItem(items[i], transition)
         IN  DrainInOrder(items, i + 1, transition,
                [game  |-> AddAssign(acc.game, r.game),
                 round |-> AddAssign(acc.round, r.round),
                 tile  |-> AddAssign(acc.tile, r.tile)])

NoLeaves == [game  |-> NewPositionAccumulator,
             round |-> NewPositionAccumulator,
             tile  |-> NewTileAccumulator]

\* What solve_probabilities finalizes with num_workers = 1: seed_stack leaves
\* the initial item alone and the single worker enumerates it.
OneWorkerResult == DrainInOrder(<<<<board, depth>>>>, 1, TransitionDepth, NoLeaves)

\* The number of roll paths from a state that reach the ply `plies` rolls
\* further on, a path that ends earlier in a terminal state counted once.
RECURSIVE PathsToPly(_, _)
RECURSIVE PathsLoop(_, _, _)
PathsLoop(b, plies, i) ==
    LET moves == potential_moves(b)
    IN  IF i > Len(moves) THEN 0
        ELSE PathsToPly(update(b, moves[i]), plies - 1) + PathsLoop(b, plies, i + 1)

PathsToPly(b, plies) ==
    IF plies = 0 \/ is_terminal(b) THEN 1 ELSE PathsLoop(b, plies, 1)

TerminalItem(item) == is_terminal(item[1]) /\ item[2] > 0

\* ------------------------------------------------------------------ claims

\* C1: for a fixed initial state and depth (depth at least the number of
\* unresolved dice) the finalized game, round and tile accumulators are the
\* same for every num_workers as for one worker.
C1_SameForEveryWorkerCount ==
    (Completed /\ depth >= num_unrolled(board)) =>
        /\ game_positions_accumulator = OneWorkerResult.game
        /\ round_positions_accumulator = OneWorkerResult.round
        /\ tile_accumulator = OneWorkerResult.tile

\* C2: conservation of mass: whenever solve_probabilities completes (depth
\* at least the number of unresolved dice), the total of the merged game
\* accumulator is the total of one sequential, unseeded
\* calculate_game_terminal_states on the same state and depth.
C2_ConservationOfMass ==
    (Completed /\ depth >= num_unrolled(board)) =>
        Total(game_positions_accumulator)
            = Total(calculate_game_terminal_states(board, depth))

\* C3: mode switch: when 0 < depth - num_unrolled < depth, the finalized
\* round accumulator counts the roll paths that reach the transition ply
\* and its total is at most the game accumulator's total.
C3_ModeSwitch ==
    (Completed /\ num_unrolled(board) > 0 /\ num_unrolled(board) < depth) =>
        /\ Total(round_positions_accumulator)
                = PathsToPly(board, num_unrolled(board))
        /\ Total(round_positions_accumulator)
                <= Total(game_positions_accumulator)

C5_LeafInputFails ==
    (depth = 0 \/ is_terminal(board)) =>
        /\ pc \notin {"workers", "done"}
        /\ NoWorkerRan
        /\ (pc = "seed" => stack = <<<<board, depth>>>>)

\* C6: with depth below the number of unresolved dice the call is rejected:
\* no worker is ever dispatched with a wrapped transition depth and nothing
\* is returned.
C6_ShallowDepthRejected ==
    depth < num_unrolled(board) =>
        /\ pc \notin {"workers", "done"}
        /\ NoWorkerRan

\* C7: an item whose state is terminal and whose depth is above 0 never has
\* a successor pushed by the seeder, and a worker that pops it adds exactly
\* one leaf, keyed by the state's outcome, to its game and to its round
\* accumulator.
C7_TerminalItemIsOneLeaf ==
    [][ /\ (pc = "seed" /\ stack # <<>> /\ TerminalItem(Head(stack)))
            => Len(stack') <= Len(stack)
        /\ (pc = "workers" /\ stack # <<>> /\ stack' = Tail(stack)
                /\ TerminalItem(Head(stack)))
            => \E w \in Workers :
                LET leaf == IntoAccumulator(camel_order(Head(stack)[1]))
                IN  /\ private_game_positions'[w]
                            = AddAssign(private_game_positions[w], leaf)
                    /\ private_round_positions'[w]
                            = AddAssign(private_round_positions[w], leaf) ]_vars

\* C8: for fixed inputs every interleaving of the workers' pops and merges
\* finalizes the accumulators one worker draining the seeded queue in order
\* would produce.
C8_SchedulingInvariance ==
    Completed =>
        LET alone == DrainInOrder(seeded, 1, transition_depth, NoLeaves)
        IN  /\ game_positions_accumulator = alone.game
            /\ round_positions_accumulator = alone.round
            /\ tile_accumulator = alone.tile

C8_Witness ==
    /\ Completed
    /\ num_workers = 2
    /\ Len(seeded) >= 2
    /\ \A w \in Workers : Total(private_game_positions[w]) > 0
    /\ Total(round_positions_accumulator) > 0
    /\ depth >= num_unrolled(board)

\* C9: a seeding underflow or a queue overflow aborts the computation: no
\* worker has started, the shared accumulators were never added to, nothing
\* is returned; a push fails only on a full queue and the failure is fatal
\* at once.
C9_FatalFailureAborts ==
    /\ failure # "" =>
        /\ pc = "panicked"
        /\ NoWorkerRan
        /\ SharedUntouched
    /\ failure = "queue overflow" => Len(stack) = Capacity
    /\ failure = "seed underflow" => stack = <<>>
    /\ pc \in {"workers", "done"} => (failure = "" /\ Len(seeded) <= Capacity)

C9_Witness ==
    /\ pc = "panicked"
    /\ failure = "queue overflow"
    /\ Len(stack) = Capacity
    /\ NoWorkerRan
    /\ depth > 0
    /\ ~is_terminal(board)

\* C10: with one worker and depth equal to the number of unresolved dice of a
\* non-terminal initial state, the finalized round and game accumulators are
\* equal key by key and their total is the number of leaf paths.
C10_RoundEqualsGame ==
    (Completed /\ num_workers = 1 /\ ~is_terminal(board)
        /\ depth = num_unrolled(board)) =>
        /\ round_positions_accumulator = game_positions_accumulator
        /\ Total(game_positions_accumulator) = PathsToPly(board, depth)

RECURSIVE SumWorkers(_, _)
SumWorkers(f, ws) ==
    IF ws = {} THEN 0
    ELSE LET w == CHOOSE x \in ws : TRUE
         IN  Total(f[w]) + SumWorkers(f, ws \ {w})

\* The leaves all private round accumulators hold together.
RoundHeld == SumWorkers(private_round_positions, Workers)

APop == pc = "workers" /\ stack # <<>> /\ stack' = Tail(stack)

\* C11: a popped item whose depth is at or above the transition depth adds
\* at least one count to the round accumulator of the worker that popped
\* it; an item strictly below the transition depth adds none (inputs with
\* at least one unresolved die and depth at least their number).
C11_RoundTrackedAtOrAboveTransition ==
    [][ (APop /\ num_unrolled(board) >= 1 /\ depth >= num_unrolled(board)) =>
            LET added == RoundHeld' - RoundHeld
            IN  /\ Head(stack)[2] >= transition_depth => added >= 1
                /\ Head(stack)[2] < transition_depth => added = 0 ]_vars

NoAdds == [game |-> 0, round |-> 0, tile |-> 0]

OneAddEach == [game |-> 1, round |-> 1, tile |-> 1]

\* C12: each worker adds to each shared accumulator exactly once, after its
\* pop returned empty (the queue is empty then and the worker holds no
\* item); a shared accumulator changes only in such an add; when the call
\* completes every worker has finished and each shared accumulator has
\* received num_workers adds.
C12_OneBulkAddPerWorker ==
    /\ [](\A w \in Workers :
            /\ adds[w].game <= 1 /\ adds[w].round <= 1 /\ adds[w].tile <= 1
            /\ wpc[w] \in {"idle", "loop"} => adds[w] = NoAdds
            /\ adds[w] # NoAdds => stack = <<>>
            /\ Completed => (adds[w] = OneAddEach /\ wpc[w] = "finished"))
    /\ [][ /\ game_positions_accumulator' # game_positions_accumulator
                => \E w \in Workers : adds'[w].game = adds[w].game + 1
           /\ round_positions_accumulator' # round_positions_accumulator
                => \E w \in Workers : adds'[w].round = adds[w].round + 1
           /\ tile_accumulator' # tile_accumulator
                => \E w \in Workers : adds'[w].tile = adds[w].tile + 1 ]_vars

C12_Witness ==
    /\ Completed
    /\ num_workers = 2
    /\ \A w \in Workers : adds[w] = OneAddEach
    /\ \A w \in Workers : Total(private_game_positions[w]) > 0
    /\ depth > 0
    /\ depth >= num_unrolled(board)

\* C13: no worker starts before seed_stack has returned; from then on
\* nothing is pushed: every step leaves the queue as it is or removes its
\* oldest item, and once a worker has left its loop the queue stays empty.
C13_QueueOnlyShrinksInParallelPhase ==
    /\ [](/\ (\E w \in Workers : wpc[w] # "idle") => pc \in {"workers", "done"}
          /\ pc \in {"workers", "done"} => ~SeedContinues
          /\ \A w \in Workers : wpc[w] \notin {"idle", "loop"} => stack = <<>>)
    /\ [][ pc = "workers" => (stack' = stack \/ stack' = Tail(stack)) ]_vars

C13_Witness ==
    /\ pc = "workers"
    /\ num_workers = 2
    /\ Len(seeded) >= 2
    /\ stack = <<>>
    /\ wpc[1] = "merge_game"
    /\ wpc[2] = "loop"
    /\ Total(private_game_positions[2]) > 0
    /\ depth > 0
    /\ depth >= num_unrolled(board)

\* C14: seed_stack terminates for every initial state, depth and
\* num_workers: the call leaves the seeding loop, by returning or by a
\* fatal failure.
C14_SeedStackTerminates == <>(pc # "seed")

\* C15: once the workers are dispatched, under fair scheduling every worker
\* finds the queue empty, makes its three merges and finishes, and
\* solve_probabilities returns.
C15_WorkersTerminate ==
    (pc = "workers") ~>
        (/\ Completed
         /\ stack = <<>>
         /\ \A w \in Workers : wpc[w] = "finished" /\ adds[w] = OneAddEach)

C15_Witness ==
    /\ Completed
    /\ num_workers = 2
    /\ stack = <<>>
    /\ Len(seeded) >= 2
    /\ \A w \in Workers : wpc[w] = "finished" /\ adds[w] = OneAddEach
    /\ depth = MaxDepth
    /\ ~is_terminal(board)
    /\ depth >= num_unrolled(board)

\* C16: for every board, depth and transition depth the game accumulator
\* of the joint enumerator equals the accumulator of the game-only
\* enumerator on the same board and depth.
C16_JointGameEqualsGameOnly ==
    pc = "enum_done" => private_game_positions[1] = game_positions_accumulator

C16_Witness ==
    /\ pc = "enum_done"
    /\ depth = MaxDepth
    /\ transition_depth = 1
    /\ ~is_terminal(board)
    /\ Total(private_round_positions[1]) > 1
    /\ Total(private_game_positions[1]) > Total(private_round_positions[1])
    /\ private_game_positions[1] = game_positions_accumulator

\* The sum of the accumulators f[w] of the workers in ws, on top of acc.
RECURSIVE SumAccumulators(_, _, _)
SumAccumulators(f, ws, acc) ==
    IF ws = {} THEN acc
    ELSE LET w == CHOOSE x \in ws : TRUE
         IN  SumAccumulators(f, ws \ {w}, AddAssign(acc, f[w]))

\* The items of the seeded queue that have been popped so far.
Popped == SubSeq(seeded, 1, Len(seeded) - Len(stack))

\* Everything enumerated so far: the shared accumulators plus the private
\* ones that have not been merged into them yet.
Enumerated ==
    [game  |-> SumAccumulators(private_game_positions,
                   {w \in Workers : adds[w].game = 0},
                   game_positions_accumulator),
     round |-> SumAccumulators(private_round_positions,
                   {w \in Workers : adds[w].round = 0},
                   round_positions_accumulator),
     tile  |-> SumAccumulators(private_tile_positions,
                   {w \in Workers : adds[w].tile = 0},
                   tile_accumulator)]

\* C17: every item in the queue when seeding ends is popped by exactly one
\* worker and enumerated exactly once (what has been accumulated is always
\* what the popped items yield, each counted once, and the rest is still
\* queued), and no item is left when the shared accumulators are read.
C17_EveryItemEnumeratedOnce ==
    /\ [](pc \in {"workers", "done"} =>
            /\ Len(stack) <= Len(seeded)
            /\ stack = SubSeq(seeded, Len(seeded) - Len(stack) + 1, Len(seeded))
            /\ Enumerated = DrainInOrder(Popped, 1, transition_depth, NoLeaves)
            /\ Completed => stack = <<>> /\ Popped = seeded)
    /\ [][ (pc = "workers" /\ stack' # stack) =>
             /\ stack' = Tail(stack)
             /\ \E w \in Workers :
                  /\ wpc[w] = "loop"
                  /\ \A v \in Workers \ {w} :
                       /\ private_game_positions'[v] = private_game_positions[v]
                       /\ private_round_positions'[v] = private_round_positions[v]
                       /\ private_tile_positions'[v] = private_tile_positions[v] ]_vars

C17_Witness ==
    /\ pc = "workers"
    /\ num_workers = 2
    /\ Len(seeded) >= 2
    /\ stack = <<>>
    /\ adds[1] = OneAddEach
    /\ wpc[2] = "loop"
    /\ Total(game_positions_accumulator) > 0
    /\ Total(private_game_positions[2]) > 0
    /\ depth > 0
    /\ depth >= num_unrolled(board)

\* C18: whenever seed_stack evaluates its loop condition num_seeded is the
\* length of the queue; the queue never holds more than its capacity of
\* 2 * num_workers items; when seed_stack returns normally the queue holds at
\* least num_to_seed items; and with num_workers = 1 it expands nothing and
\* leaves exactly the initial item.
C18_SeedCountIsQueueLength ==
    /\ pc = "seed" => num_seeded = Len(stack)
    /\ Len(stack) <= Capacity
    /\ (pc = "seed" /\ ~SeedContinues) => Len(stack) >= SeedTarget
    /\ pc \in {"workers", "done"} =>
            /\ Len(seeded) >= SeedTarget
            /\ Len(seeded) <= Capacity
    /\ num_workers = 1 =>
            /\ pc = "seed" => stack = <<<<board, depth>>>> /\ ~SeedContinues
            /\ pc \in {"workers", "done"} => seeded = <<<<board, depth>>>>

C18_Witness ==
    /\ FirstWorkerStarts
    /\ num_workers = 2
    /\ seeded = stack
    /\ Len(stack) = Capacity
    /\ num_seeded = Capacity
    /\ depth > 0
    /\ depth >= num_unrolled(board)

\* C19: no enumerator ever adds to a tile accumulator: the private tile
\* accumulators and the shared one hold nothing at every point of a solve,
\* and the finalized tile accumulator of a completed solve is empty.
C19_TileAccumulatorStaysEmpty ==
    /\ tile_accumulator = NewTileAccumulator
    /\ \A w \in Workers : private_tile_positions[w] = NewTileAccumulator
    /\ Completed => Total(tile_accumulator) = 0

C19_Witness ==
    /\ Completed
    /\ \A w \in Workers : adds[w].tile = 1
    /\ Total(round_positions_accumulator) > 0
    /\ Total(game_positions_accumulator) > Total(round_positions_accumulator)
    /\ tile_accumulator = NewTileAccumulator

====
